---- MODULE Spec2Model ----
(***************************************************************************)
(* Pair-wise RMSD tool (Tools/rmsds.cpp of LOOS).                          *)
(*                                                                         *)
(* main() reads the selected atoms of every frame of a trajectory into a   *)
(* coordinate cache (readCoords), centers every cached frame               *)
(* (centerTrajectory), computes the all-pairs RMSD matrix (rmsds, which    *)
(* calls calcRMSD once per pair) and writes the header and the matrix.     *)
(*                                                                         *)
(* Numbers.  Coordinates are integers.  An RMSD is kept as a fixed-point   *)
(* number of tenths (the integer square root of 100 * radicand), NaN is    *)
(* the IEEE not-a-number produced by 0.0/0.  The singular values are the   *)
(* output of the LAPACK routine dgesvj_, which is outside the repository:  *)
(* their sum is the exact one (known for the frames of the model, which    *)
(* lie on a line) less a slack that stands for rounding, an input.         *)
(***************************************************************************)
EXTENDS Integers, Sequences, FiniteSets, TLC

\* ------------------------------------------------------------------ bounds
MaxFrames == 3      \* frames in the trajectory: 0..MaxFrames
MaxAtoms  == 2      \* atoms in the selection:   0..MaxAtoms
MaxSlack  == 1      \* dgesvj_ returns a sum of singular values within
                    \* MaxSlack of the exact one, on either side
LargeSpread == 4    \* large frame counts: 65535 .. 65535 + LargeSpread
MaxRow    == 256    \* large frame counts: the loop is followed up to row j

\* --------------------------------------------------------------- variables
VARIABLES
  pc,        \* position of main(): readCoords, centerTrajectory, rmsds ...
  nframes,   \* traj->nframes()
  natoms,    \* subset.size()
  traj,      \* the trajectory file: frame index -> coordinates (3*natoms)
  readOK,    \* frame index -> the value readFrame(j) returns
  physmem,   \* physical memory of the machine, in bytes
  noop,      \* topts->noop (--noout)
  buf,       \* the trajectory's frame buffer (last frame parsed)
  T,         \* the coordinate cache (vMatrix), rows 1..Len(T)
  centers,   \* history: row -> number of centerAtOrigin calls on it
  R,         \* the result matrix of rmsds, cell <<row, col>>
  n,         \* rmsds: uint n = M.size()
  j, i,      \* loop indices of readCoords, centerTrajectory and rmsds
  total,     \* rmsds: the total handed to EstimatingCounter
  count,     \* slayer: number of update() calls
  started, finished,  \* slayer.start() / slayer.finish() have been called
  last,      \* arguments and result of the latest calcRMSD call
  calls,     \* history: <<j, i>> -> number of calcRMSD(M[j], M[i]) calls
  writes,    \* history: cell -> number of assignments to R(cell)
  svdErrs,   \* history: calcRMSD calls in which dgesvj_ set info != 0
  err,       \* exception that ended the run ("none" while there is none)
  out,       \* lines written to standard output
  cancel,    \* a cancel request was made for this run
  warned,    \* a memory warning was issued
  svd,       \* two frames -> slack of dgesvj_ (parallel decomposition)
  wpc        \* pair -> stage of the pair's step (parallel decomposition)

vars == <<pc, nframes, natoms, traj, readOK, physmem, noop, buf, T, centers,
          R, n, j, i, total, count, started, finished, last, calls, writes,
          svdErrs, err, out, cancel, warned, svd, wpc>>

\* ------------------------------------------------------------- arithmetic
Abs(x) == IF x < 0 THEN -x ELSE x

Max(a, b) == IF a >= b THEN a ELSE b

\* IEEE not-a-number, kept apart from every fixed-point value (all >= 0)
NaN == -1

\* fixed-point scale of a square root: results are in tenths
Scale == 100

RECURSIVE ISqrtFrom(_, _)
ISqrtFrom(x, r) == IF (r + 1) * (r + 1) > x THEN r ELSE ISqrtFrom(x, r + 1)

\* sqrt(x / d) of line 294: x >= 0 a double, d the int n converted to double
SqrtDiv(x, d) ==
  IF d = 0 THEN NaN   \* 0.0/0 is NaN (x is 0 when there are no atoms)
  ELSE ISqrtFrom((Scale * x) \div d, 0)

\* --- 32-bit unsigned arithmetic, a value being its four bytes, low first
Bytes(x) == << x % 256, (x \div 256) % 256,
               (x \div 65536) % 256, (x \div 16777216) % 256 >>

\* x - 1 modulo 2^32
UDec(b) ==
  IF b[1] > 0 THEN <<b[1] - 1, b[2], b[3], b[4]>>
  ELSE IF b[2] > 0 THEN <<255, b[2] - 1, b[3], b[4]>>
  ELSE IF b[3] > 0 THEN <<255, 255, b[3] - 1, b[4]>>
  ELSE IF b[4] > 0 THEN <<255, 255, 255, b[4] - 1>>
  ELSE <<255, 255, 255, 255>>

\* a * b modulo 2^32 (schoolbook multiplication, columns above 2^32 dropped)
UMul(a, b) ==
  LET c1 == a[1] * b[1]
      c2 == a[1] * b[2] + a[2] * b[1] + (c1 \div 256)
      c3 == a[1] * b[3] + a[2] * b[2] + a[3] * b[1] + (c2 \div 256)
      c4 == a[1] * b[4] + a[2] * b[3] + a[3] * b[2] + a[4] * b[1]
            + (c3 \div 256)
  IN  << c1 % 256, c2 % 256, c3 % 256, c4 % 256 >>

\* floor(x / 2.0): the double holds x exactly, the quotient is halved down
UHalf(b) ==
  << (b[1] \div 2) + 128 * (b[2] % 2), (b[2] \div 2) + 128 * (b[3] % 2),
     (b[3] \div 2) + 128 * (b[4] % 2), b[4] \div 2 >>

\* the value of a 32-bit unsigned below 2^31
UVal(b) == b[1] + 256 * b[2] + 65536 * b[3] + 16777216 * b[4]

\* the total as floor(n * n / 2.0)
ProgressTotal_m(m) == UVal(UHalf(UMul(Bytes(m), Bytes(m))))

\* uint total = floor(n * (n-1) / 2.0), n a uint
ProgressTotal(m) == UVal(UHalf(UMul(Bytes(m), UDec(Bytes(m)))))

\* N(N-1)/2, the number of unordered pairs of N frames
PairCount(m) == (m * (m - 1)) \div 2

\* ------------------------------------------------- trajectory and frames
\* coordinates of atom a (0-based) of conformation k: the atoms lie on a
\* line along x, spaced k * m apart, the whole translated by (k, k, 0)
Conformation(m, k) ==
  [ x \in 1..(3 * m) |->
      LET a == (x - 1) \div 3
          c == (x - 1) % 3
      IN  IF c = 0 THEN k * m * a + k ELSE IF c = 1 THEN k ELSE 0 ]

\* the trajectories of l frames of m atoms
Trajectories(l, m) ==
  { [ f \in 0..(l - 1) |-> Conformation(m, 1 + ((f + s) % 2)) ] : s \in 0..1 }

\* readFrame succeeds on every frame, or fails on the first or the last
ReadOutcomes(l) ==
  { [ f \in 0..(l - 1) |-> f # bad ] : bad \in {0, l - 1, l} }

\* sizes of physical memory, in bytes
PhysMems == {64}

Cells(m) == (0..(m - 1)) \X (0..(m - 1))

\* the pairs the loop of rmsds visits: <<j, i>> with i < j
Pairs(m) == { p \in Cells(m) : p[2] < p[1] }

\* ---------------------------------------------------------- centerAtOrigin
RECURSIVE AxisSum(_, _, _)
\* c[a] += v[i + a] for i = 0, 3, 6, ...  (x is the 1-based position)
AxisSum(v, x, acc) ==
  IF x > Len(v) THEN acc ELSE AxisSum(v, x + 3, acc + v[x])

\* the centroid taken as c[a] / v.size(), the factor 3 forgotten
centerAtOrigin_m(v) ==
  IF Len(v) = 0 THEN v
  ELSE LET c == [ a \in 0..2 |-> AxisSum(v, a + 1, 0) \div Len(v) ]
       IN  [ x \in 1..Len(v) |-> v[x] - c[(x - 1) % 3] ]

\* centerAtOrigin: subtract the centroid c[a] = 3 * c[a] / v.size()
centerAtOrigin(v) ==
  IF Len(v) = 0 THEN v
  ELSE LET c == [ a \in 0..2 |-> (3 * AxisSum(v, a + 1, 0)) \div Len(v) ]
       IN  [ x \in 1..Len(v) |-> v[x] - c[(x - 1) % 3] ]

\* ---------------------------------------------------------------- calcRMSD
RECURSIVE SumSq(_, _, _)
\* ssu[0] + ssu[1] + ssu[2]: the squares of every coordinate of u
SumSq(u, x, acc) ==
  IF x > Len(u) THEN acc ELSE SumSq(u, x + 1, acc + u[x] * u[x])

\* double E0 = ssu[0] + ssu[1] + ssu[2] + ssv[0] + ssv[1] + ssv[2]
E0Of(u, v) == SumSq(u, 1, 0) + SumSq(v, 1, 0)

\* dgemm_: the 3x3 correlation matrix R[a][b] = sum over atoms of u[a] * v[b]
RECURSIVE CorrSum(_, _, _, _, _)
CorrSum(u, v, a, b, k) ==
  IF 3 * k >= Len(u) THEN 0
  ELSE u[3 * k + a + 1] * v[3 * k + b + 1] + CorrSum(u, v, a, b, k + 1)

Correlation(u, v) == [ e \in (0..2) \X (0..2) |-> CorrSum(u, v, e[1], e[2], 0) ]

\* the exact sum of the singular values of a 3x3 matrix with at most one
\* non-zero entry (the centered frames of Conformation lie on the x axis,
\* so only R[0][0] is non-zero): the magnitude of that entry
RECURSIVE EntrySum(_, _)
EntrySum(C, es) ==
  IF es = {} THEN 0
  ELSE LET e == CHOOSE x \in es : TRUE
       IN  Abs(C[e]) + EntrySum(C, es \ {e})

\* the slacks of dgesvj_: the sum of singular values it returns is the
\* exact one less the slack (none, or the largest either way)
Slacks == { 0 - MaxSlack, 0, MaxSlack }

\* the values dgesvj_ reports in info: 0 is success
Infos == {0, 1}

\* double ss = S[0] + S[1] + S[2], S the singular values from dgesvj_;
\* the singular values of the zero matrix are exactly zero
SingularSum(C, slack) ==
  LET exact == EntrySum(C, DOMAIN C)
  IN  IF exact = 0 THEN 0 ELSE Max(0, exact - slack)

\* info is not looked at
SvdFails_m(info) == FALSE

\* if (info != 0) throw(NumericalError(...))
SvdFails(info) == info # 0

\* the radicand clamped at zero instead of its magnitude
Radicand_m(e0, ss) == Max(0, e0 - 2 * ss)

\* the radicand's numerator of line 294
Radicand(e0, ss) == Abs(e0 - 2 * ss)

\* the coordinates squared in place while the sums are taken
ArgAfter_m(u) == [ x \in 1..Len(u) |-> u[x] * u[x] ]

\* an argument vector when calcRMSD returns or throws: its elements are
\* read for the sums and handed to dgemm_ as input, none is assigned
ArgAfter(u) == u

\* the cache after calcRMSD(M[j], M[i])
CacheAfter(M, jj, ii) ==
  [ f \in 1..Len(M) |->
      IF f = jj + 1 \/ f = ii + 1 THEN ArgAfter(M[f]) ELSE M[f] ]

\* calcRMSD(u, v), dgesvj_ answering with the given slack and info
calcRMSD(u, v, slack, info) ==
  LET e0 == E0Of(u, v)
      m  == Len(u) \div 3
      ss == SingularSum(Correlation(u, v), slack)
  IN  [ natoms |-> m, E0 |-> e0, ss |-> ss, info |-> info,
        thrown |-> SvdFails(info),
        rmsd   |-> SqrtDiv(Radicand(e0, ss), m) ]

\* ------------------------------------------------------------------- rmsds
\* RealMatrix R(n, n): the constructor leaves every cell zero
ZeroMatrix(m) == [ c \in Cells(m) |-> 0 ]

\* R(j, i) = calcRMSD(M[j], M[i])
StoreLower(M, jj, ii, d) == [ M EXCEPT ![<<jj, ii>>] = d ]

\* the mirror reads the first cell of the row
MirrorSource_m(jj, ii) == <<jj, 0>>

\* the cell read by the right-hand side of R(i, j) = R(j, i)
MirrorSource(jj, ii) == <<jj, ii>>

\* the mirror assignment left out
StoreMirror_m(M, jj, ii) == M

\* R(i, j) = R(j, i)
StoreMirror(M, jj, ii) == [ M EXCEPT ![<<ii, jj>>] = M[MirrorSource(jj, ii)] ]

\* the inner loop running to i <= j
LoopNext_m(jj, ii) == IF ii + 1 <= jj THEN <<jj, ii + 1>> ELSE <<jj + 1, 0>>

\* for (uint j=1; j<n; ++j) for (uint i=0; i<j; ++i): the indices after <<j, i>>
LoopNext(jj, ii) == IF ii + 1 < jj THEN <<jj, ii + 1>> ELSE <<jj + 1, 0>>

\* slayer.update(): the counter of completed units goes up by one
update(c) == c + 1

\* bytes the cache holds: l rows of 3 * n doubles
CacheBytes(l, m) == l * m * 3 * 8

\* cache_memory_fraction_warning = 0.66, in hundredths
cache_memory_fraction_warning == 66

\* the estimate is more than the fraction of physical memory
OverMemoryFraction(l, m, mem) ==
  CacheBytes(l, m) * 100 > cache_memory_fraction_warning * mem

\* ----------------------------------------------------------------- initial
NoCall == [ natoms |-> 0, E0 |-> 0, ss |-> 0, info |-> 0,
            thrown |-> FALSE, rmsd |-> 0 ]

Init ==
  /\ pc = "readCoords"
  /\ nframes \in 0..MaxFrames
  /\ natoms \in 0..MaxAtoms
  /\ traj \in Trajectories(nframes, natoms)
  /\ readOK \in ReadOutcomes(nframes)
  /\ physmem \in PhysMems
  /\ noop \in BOOLEAN
  /\ buf = Conformation(natoms, 1)
  /\ T = [ f \in 1..nframes |-> [ x \in 1..(3 * natoms) |-> 0 ] ]
  /\ centers = [ f \in 1..nframes |-> 0 ]
  /\ R = ZeroMatrix(0)
  /\ n = 0
  /\ j = 0
  /\ i = 0
  /\ total = 0
  /\ count = 0
  /\ started = FALSE
  /\ finished = FALSE
  /\ last = NoCall
  /\ calls = [ c \in Cells(nframes) |-> 0 ]
  /\ writes = [ c \in Cells(nframes) |-> 0 ]
  /\ svdErrs = 0
  /\ err = "none"
  /\ out = [ header |-> FALSE, rows |-> <<>> ]
  /\ cancel = FALSE
  /\ warned = FALSE
  /\ svd = <<>>
  /\ wpc = <<>>

inputs == <<nframes, natoms, traj, readOK, physmem, noop>>
hist == <<calls, writes, svdErrs>>
parvars == <<svd, wpc>>

\* ------------------------------------------------------------- readCoords
\* one iteration of the loop over the frames: readFrame, updateGroupCoords
\* and the copy of the coordinates into row j; the value readFrame returns
\* is not looked at, a failed read leaves the frame buffer as it was
ReadFrame ==
  /\ pc = "readCoords"
  /\ j < nframes
  /\ buf' = IF readOK[j] THEN traj[j] ELSE buf
  /\ T' = [ T EXCEPT ![j + 1] = buf' ]
  /\ j' = j + 1
  /\ UNCHANGED <<pc, inputs, centers, R, n, i, total, count, started,
                 finished, last, hist, err, out, cancel, warned, parvars>>

\* return(M); main goes on to centerTrajectory(T)
ReadCoordsReturn ==
  /\ pc = "readCoords"
  /\ j >= nframes
  /\ pc' = "centerTrajectory"
  /\ i' = 0
  /\ UNCHANGED <<inputs, buf, T, centers, R, n, j, total, count, started,
                 finished,
                 last, hist, err, out, cancel, warned, parvars>>

\* ------------------------------------------------------- centerTrajectory
CenterFrame ==
  /\ pc = "centerTrajectory"
  /\ i < Len(T)
  /\ T' = [ T EXCEPT ![i + 1] = centerAtOrigin(T[i + 1]) ]
  /\ centers' = [ centers EXCEPT ![i + 1] = @ + 1 ]
  /\ i' = i + 1
  /\ UNCHANGED <<pc, inputs, buf, R, n, j, total, count, started, finished,
                 last, hist, err, out, cancel, warned, parvars>>

CenterReturn ==
  /\ pc = "centerTrajectory"
  /\ i >= Len(T)
  /\ pc' = "rmsds"
  /\ UNCHANGED <<inputs, buf, T, centers, R, n, j, i, total, count, started, finished,
                 last, hist, err, out, cancel, warned, parvars>>

\* ------------------------------------------------------------------ rmsds
\* lines 301-311: n, R, total, the progress counter, the loop's first index
RmsdsStart ==
  /\ pc = "rmsds"
  /\ n' = Len(T)
  /\ R' = ZeroMatrix(Len(T))
  /\ total' = ProgressTotal(Len(T))
  /\ count' = 0
  /\ started' = TRUE
  /\ j' = 1
  /\ i' = 0
  /\ pc' = "pairs"
  /\ UNCHANGED <<inputs, buf, T, centers, finished, last, hist, err, out,
                 cancel, warned, parvars>>

\* the body of the loop for the pair <<j, i>>: calcRMSD, the two
\* assignments and slayer.update(); a NumericalError leaves rmsds and
\* main, which catches nothing
Pair ==
  /\ pc = "pairs"
  /\ j < n
  /\ \E slack \in Slacks, info \in Infos :
       LET c == calcRMSD(T[j + 1], T[i + 1], slack, info)
       IN  /\ last' = c
           /\ T' = CacheAfter(T, j, i)
           /\ svdErrs' = IF info # 0 THEN svdErrs + 1 ELSE svdErrs
           /\ calls' = [ calls EXCEPT ![<<j, i>>] = @ + 1 ]
           /\ IF c.thrown
                THEN /\ err' = "NumericalError"
                     /\ pc' = "aborted"
                     /\ UNCHANGED <<R, writes, count, j, i>>
                ELSE /\ R' = StoreMirror(StoreLower(R, j, i, c.rmsd), j, i)
                     /\ writes' = [ x \in DOMAIN writes |->
                                      writes[x]
                                      + (IF x = <<j, i>> THEN 1 ELSE 0)
                                      + (IF x = <<i, j>> THEN 1 ELSE 0) ]
                     /\ count' = update(count)
                     /\ j' = LoopNext(j, i)[1]
                     /\ i' = LoopNext(j, i)[2]
                     /\ UNCHANGED <<err, pc>>
  /\ UNCHANGED <<inputs, buf, centers, n, total, started, finished, out,
                 cancel, warned, parvars>>

\* slayer.finish(); return(R)
RmsdsReturn ==
  /\ pc = "pairs"
  /\ j >= n
  /\ finished' = TRUE
  /\ pc' = "output"
  /\ UNCHANGED <<inputs, buf, T, centers, R, n, j, i, total, count, started, last,
                 hist, err, out, cancel, warned, parvars>>

\* ------------------------------------------------------------------- main
\* the rows of the matrix as operator<< writes them
MatrixRows(M, m) ==
  [ r \in 1..m |-> [ c \in 1..m |-> M[<<r - 1, c - 1>>] ] ]

\* if (!topts->noop) { cout << "# " << header; cout << M; }
Output ==
  /\ pc = "output"
  /\ out' = IF noop THEN out
            ELSE [ header |-> TRUE, rows |-> MatrixRows(R, n) ]
  /\ pc' = "done"
  /\ UNCHANGED <<inputs, buf, T, centers, R, n, j, i, total, count, started, finished,
                 last, hist, err, cancel, warned, parvars>>

\* the user asks for the run to be cancelled; nothing in rmsds.cpp reads it
Cancel ==
  /\ pc \notin {"done", "aborted"}
  /\ ~cancel
  /\ cancel' = TRUE
  /\ UNCHANGED <<pc, inputs, buf, T, centers, R, n, j, i, total, count, started,
                 finished, last, hist, err, out, warned, parvars>>

Next ==
  \/ ReadFrame
  \/ ReadCoordsReturn
  \/ CenterFrame
  \/ CenterReturn
  \/ RmsdsStart
  \/ Pair
  \/ RmsdsReturn
  \/ Output
  \/ Cancel

Spec == Init /\ [][Next]_vars

\* ------------------------------------------- the parallel decomposition
\* The body of the loop of rmsds (lines 313-315) run once per pair by
\* independent workers, with no lock on R: the pairs' statements interleave
\* in any order.  dgesvj_ is a function of its input: svd fixes its slack
\* for every two frames it can be handed; it converges (info = 0) on all.
\* The selection has MaxAtoms atoms, so that the frames have an extent.
\* the slacks dgesvj_ is given here: the exact sum and the largest excess
ParSlacks == { 0 - MaxSlack, 0 }

CenteredFrames(m) == { centerAtOrigin(Conformation(m, k)) : k \in 1..2 }

InitPar ==
  /\ pc = "pairs"
  /\ nframes \in 0..MaxFrames
  /\ natoms = MaxAtoms
  /\ traj \in Trajectories(nframes, natoms)
  /\ readOK = [ f \in 0..(nframes - 1) |-> TRUE ]
  /\ physmem \in PhysMems
  /\ noop = FALSE
  /\ buf = Conformation(natoms, 1)
  /\ T = [ f \in 1..nframes |-> centerAtOrigin(traj[f - 1]) ]
  /\ centers = [ f \in 1..nframes |-> 1 ]
  /\ R = ZeroMatrix(nframes)
  /\ n = nframes
  /\ j = 1
  /\ i = 0
  /\ total = ProgressTotal(nframes)
  /\ count = 0
  /\ started = TRUE
  /\ finished = FALSE
  /\ last = NoCall
  /\ calls = [ c \in Cells(nframes) |-> 0 ]
  /\ writes = [ c \in Cells(nframes) |-> 0 ]
  /\ svdErrs = 0
  /\ err = "none"
  /\ out = [ header |-> FALSE, rows |-> <<>> ]
  /\ cancel = FALSE
  /\ warned = FALSE
  /\ svd \in [ CenteredFrames(natoms) \X CenteredFrames(natoms) -> ParSlacks ]
  /\ wpc = [ p \in Pairs(nframes) |-> "todo" ]

\* R(j, i) = calcRMSD(M[j], M[i]) of pair p
ParStore(p) ==
  /\ pc = "pairs"
  /\ wpc[p] = "todo"
  /\ LET u == T[p[1] + 1]
         v == T[p[2] + 1]
     IN  R' = StoreLower(R, p[1], p[2], calcRMSD(u, v, svd[<<u, v>>], 0).rmsd)
  /\ T' = CacheAfter(T, p[1], p[2])
  /\ calls' = [ calls EXCEPT ![p] = @ + 1 ]
  /\ writes' = [ writes EXCEPT ![p] = @ + 1 ]
  /\ wpc' = [ wpc EXCEPT ![p] = "stored" ]
  /\ UNCHANGED <<pc, inputs, buf, centers, n, j, i, total, count, started,
                 finished, last, svdErrs, err, out, cancel, warned, svd>>

\* R(i, j) = R(j, i) of pair p
ParMirror(p) ==
  /\ pc = "pairs"
  /\ wpc[p] = "stored"
  /\ R' = StoreMirror(R, p[1], p[2])
  /\ writes' = [ writes EXCEPT ![<<p[2], p[1]>>] = @ + 1 ]
  /\ wpc' = [ wpc EXCEPT ![p] = "mirrored" ]
  /\ UNCHANGED <<pc, inputs, buf, T, centers, n, j, i, total, count, started,
                 finished, last, calls, svdErrs, err, out, cancel, warned,
                 svd>>

\* slayer.update() of pair p
ParUpdate(p) ==
  /\ pc = "pairs"
  /\ wpc[p] = "mirrored"
  /\ count' = update(count)
  /\ wpc' = [ wpc EXCEPT ![p] = "done" ]
  /\ UNCHANGED <<pc, inputs, buf, T, centers, R, n, j, i, total, started, finished,
                 last, hist, err, out, cancel, warned, svd>>

\* every pair is done: slayer.finish(); return(R)
ParReturn ==
  /\ pc = "pairs"
  /\ \A p \in DOMAIN wpc : wpc[p] = "done"
  /\ finished' = TRUE
  /\ pc' = "output"
  /\ UNCHANGED <<inputs, buf, T, centers, R, n, j, i, total, count, started, last,
                 hist, err, out, cancel, warned, parvars>>

NextPar ==
  \/ \E p \in DOMAIN wpc : ParStore(p)
  \/ \E p \in DOMAIN wpc : ParMirror(p)
  \/ \E p \in DOMAIN wpc : ParUpdate(p)
  \/ ParReturn

SpecPar == InitPar /\ [][NextPar]_vars

\* the matrix the sequential loop of rmsds leaves, from <<jj, ii>> on, when
\* dgesvj_ answers the frames u, v with slack svd[<<u, v>>]
RECURSIVE SeqLoop(_, _, _)
SeqLoop(M, jj, ii) ==
  IF jj >= n THEN M
  ELSE LET u == T[jj + 1]
           v == T[ii + 1]
           c == calcRMSD(u, v, svd[<<u, v>>], 0)
           W == StoreMirror(StoreLower(M, jj, ii, c.rmsd), jj, ii)
       IN  SeqLoop(W, LoopNext(jj, ii)[1], LoopNext(jj, ii)[2])

\* the cells a pair's step assigns, and the cells it reads
CellsWritten(p) == { <<p[1], p[2]>>, <<p[2], p[1]>> }
CellsRead(p) == { MirrorSource(p[1], p[2]) }

\* =================================================================== claims
\* number of calcRMSD calls made so far
NumCalls == Cardinality({ c \in DOMAIN calls : calls[c] > 0 })

\* pairs whose two cells have been assigned
NumCompleted == Cardinality({ p \in Pairs(n) : writes[p] > 0 })

Returned == pc \in {"output", "done"}

C2_OncePerPair ==
  /\ \A c \in DOMAIN calls :
       /\ calls[c] <= 1
       /\ writes[c] <= 1
       /\ c[2] >= c[1] => calls[c] = 0
       /\ c[1] = c[2] => writes[c] = 0
  /\ Returned =>
       /\ NumCalls = PairCount(nframes)
       /\ \A c \in Cells(nframes) :
            /\ calls[c] = IF c[2] < c[1] THEN 1 ELSE 0
            /\ writes[c] = IF c[1] # c[2] THEN 1 ELSE 0

C2_Witness ==
  /\ pc = "done"
  /\ n >= 3
  /\ NumCalls = 3
  /\ writes[<<0, 2>>] = 1 /\ writes[<<2, 0>>] = 1 /\ writes[<<1, 1>>] = 0

\* C3 for the frame counts of Spec, where n * (n-1) fits 32 bits: the
\* progress counter equals the number of completed pairs, never exceeds
\* total = N(N-1)/2, never decreases, moves by one at a time, and equals
\* the total when finish() is called.
C3_Progress ==
  /\ [](/\ count <= PairCount(nframes)
        /\ started => /\ total = PairCount(nframes)
                      /\ count <= total
                      /\ count = NumCompleted
        /\ finished => count = total /\ count = PairCount(nframes))
  /\ [][count' = count \/ count' = count + 1]_vars

C3_Witness == finished /\ count = 3 /\ total = 3

\* C4: nothing is written to the output unless rmsds returned with every
\* pair computed and no failure of the SVD; a run ended by an error has
\* written neither the header nor a row.
C4_NoPartialOutput ==
  /\ (out.header \/ out.rows # <<>>) =>
       /\ err = "none"
       /\ svdErrs = 0
       /\ \A p \in Pairs(nframes) : calls[p] = 1 /\ writes[p] = 1
       /\ out.header
       /\ out.rows = MatrixRows(R, nframes)
  /\ err # "none" => (~out.header /\ out.rows = <<>>)

C4_Witness ==
  /\ pc = "aborted"
  /\ err = "NumericalError"
  /\ count >= 1
  /\ ~out.header /\ out.rows = <<>>

\* C5: once the cancel request is set, no further pair is computed and no
\* matrix is emitted.
C5_CancelHalts == [][cancel => (calls' = calls /\ out' = out)]_vars

\* C6: a calcRMSD call with zero atoms fails with an InputError and
\* returns no value.
C6_ZeroAtomsInputError ==
  (NumCalls > 0 /\ last.natoms = 0) => err = "InputError"

\* C7 as stated: a successful calcRMSD returns sqrt(max(0, E0 - 2 ss) / n),
\* which is 0 whenever E0 - 2 ss is negative.
C7_Clamped ==
  (NumCalls > 0 /\ ~last.thrown) =>
    /\ last.rmsd = SqrtDiv(Max(0, last.E0 - 2 * last.ss), last.natoms)
    /\ last.E0 - 2 * last.ss < 0 => last.rmsd = 0

\* C7 amended: a successful calcRMSD returns sqrt(|E0 - 2 ss| / n): the
\* result r is the root of the magnitude (r^2 <= 100 |E0 - 2 ss| / n <
\* (r+1)^2 in tenths), so it is positive when E0 - 2 ss is negative; with
\* no atoms the quotient is 0/0 and the result is NaN.
C7_Magnitude ==
  (NumCalls > 0 /\ ~last.thrown) =>
    LET x == last.E0 - 2 * last.ss
        q == (Scale * Abs(x)) \div last.natoms
        r == last.rmsd
    IN  IF last.natoms = 0 THEN r = NaN
        ELSE /\ r >= 0
             /\ r * r <= q
             /\ q < (r + 1) * (r + 1)
             /\ x < 0 => r > 0

C7_Witness ==
  /\ NumCalls > 0
  /\ ~last.thrown
  /\ last.natoms > 0
  /\ last.E0 - 2 * last.ss < 0
  /\ last.rmsd > 0

\* C8: once readFrame has failed on a frame, the run has ended with an
\* InputError and no pair is ever computed.
FailedReadDone ==
  \E f \in DOMAIN readOK : ~readOK[f] /\ (pc # "readCoords" \/ f < j)

C8_FailedReadAborts ==
  FailedReadDone => (err = "InputError" /\ NumCalls = 0)

\* C9: after the cache is built, a memory warning has been issued exactly
\* when frames x atoms x 3 x 8 exceeds the fraction of physical memory.
C9_MemoryWarning ==
  pc # "readCoords" => (warned <=> OverMemoryFraction(nframes, natoms, physmem))

\* C10: two different pairs assign disjoint cells and neither reads a cell
\* the other assigns; and whatever the interleaving of the pairs' steps,
\* once every pair is done the matrix is the one the sequential loop leaves.
C10_Interleaving ==
  /\ \A p \in DOMAIN wpc : \A q \in DOMAIN wpc :
       p # q => /\ CellsWritten(p) \cap CellsWritten(q) = {}
                /\ CellsRead(p) \cap CellsWritten(q) = {}
  /\ (\A p \in DOMAIN wpc : wpc[p] \in {"mirrored", "done"}) =>
       R = SeqLoop(ZeroMatrix(n), 1, 0)

C10_Witness ==
  /\ pc = "output"
  /\ n >= 3
  /\ \E p \in DOMAIN wpc : \E q \in DOMAIN wpc : R[p] # R[q] /\ R[p] > 0

\* the three per-axis coordinate sums of a frame are zero
Centered(v) == \A a \in 1..3 : AxisSum(v, a, 0) = 0

\* C11: no frame is centered while the cache is being read; every frame
\* has been centered exactly once when rmsds starts, and stays so (never
\* a second time); at every calcRMSD call the per-axis sums of both
\* arguments are zero.
C11_CenteredOnce ==
  /\ [](/\ \A f \in DOMAIN centers : centers[f] <= 1
        /\ pc = "readCoords" => \A f \in DOMAIN centers : centers[f] = 0
        /\ (pc \notin {"readCoords", "centerTrajectory"} \/ NumCalls > 0) =>
             \A f \in DOMAIN centers : centers[f] = 1)
  /\ [][calls' # calls => (Centered(T[j + 1]) /\ Centered(T[i + 1]))]_vars

C11_Witness ==
  /\ NumCalls >= 2
  /\ natoms >= 2
  /\ \A f \in DOMAIN traj : ~Centered(traj[f])
  /\ \A f \in DOMAIN centers : centers[f] = 1 /\ Centered(T[f])
  /\ \E x \in DOMAIN T[1] : T[1][x] # 0

\* C12: from the entry of rmsds to its return or throw, no step changes
\* the coordinate cache (nor the trajectory, its buffer, the inputs or the
\* output): the loop writes the matrix, the counter and its indices only.
LoopKeepsCache ==
  pc \in {"rmsds", "pairs"} =>
    /\ T' = T
    /\ UNCHANGED <<inputs, buf, centers, out>>

C12_CacheUntouched == [][LoopKeepsCache]_vars

C12_Witness ==
  /\ pc \in {"output", "aborted"}
  /\ NumCalls >= 3
  /\ natoms >= 2
  /\ \A f \in DOMAIN T : \E x \in DOMAIN T[f] : T[f][x] # 0

\* ------------------------------------- the bookkeeping of rmsds, large N
\* The total, the counter and the loop indices of rmsds for frame counts up
\* to and beyond 65536, where n * (n-1) no longer fits the 32-bit unsigned.
\* The frames and the N x N matrix are left out.  A run is followed from the
\* entry of rmsds up to row MaxRow of the loop (SpecLarge), or through the
\* rows MaxRow - 1 and MaxRow only (SpecLoop).
SmallCounts == 0..(MaxFrames + 1)
LargeCounts == { 65535 + d : d \in 0..LargeSpread }

\* what the bookkeeping leaves out or does not touch
LargeRest ==
  /\ nframes = n
  /\ natoms = 0
  /\ traj = <<>>
  /\ readOK = <<>>
  /\ physmem \in PhysMems
  /\ noop = FALSE
  /\ buf = <<>>
  /\ T = <<>>
  /\ centers = <<>>
  /\ R = <<>>
  /\ finished = FALSE
  /\ last = NoCall
  /\ calls = <<>>
  /\ writes = <<>>
  /\ svdErrs = 0
  /\ err = "none"
  /\ out = [ header |-> FALSE, rows |-> <<>> ]
  /\ cancel = FALSE
  /\ warned = FALSE
  /\ svd = <<>>
  /\ wpc = <<>>

\* the entry of rmsds
InitLarge ==
  /\ n \in SmallCounts \cup LargeCounts
  /\ pc = "rmsds"
  /\ j = 0
  /\ i = 0
  /\ total = 0
  /\ count = 0
  /\ started = FALSE
  /\ LargeRest

\* the loop at the start of row MaxRow - 1: the counter holds the pairs of
\* the rows before it, (MaxRow-1)(MaxRow-2)/2 (SpecLarge reaches this state
\* for every n > MaxRow - 1)
InitLoop ==
  /\ n \in {MaxRow} \cup LargeCounts
  /\ pc = "pairs"
  /\ j = MaxRow - 1
  /\ i = 0
  /\ total = ProgressTotal(n)
  /\ count = PairCount(MaxRow - 1)
  /\ started = TRUE
  /\ LargeRest

largefixed == <<inputs, buf, T, centers, R, n, last, hist, err, out, cancel,
                warned, parvars>>

\* lines 301-311: total, the progress counter, the loop's first index
LargeStart ==
  /\ pc = "rmsds"
  /\ total' = ProgressTotal(n)
  /\ count' = 0
  /\ started' = TRUE
  /\ j' = 1
  /\ i' = 0
  /\ pc' = "pairs"
  /\ UNCHANGED <<largefixed, finished>>

\* one successful pair of the loop: slayer.update() and the next indices
LargePair ==
  /\ pc = "pairs"
  /\ j < n
  /\ j <= MaxRow
  /\ count' = update(count)
  /\ j' = LoopNext(j, i)[1]
  /\ i' = LoopNext(j, i)[2]
  /\ UNCHANGED <<largefixed, pc, total, started, finished>>

\* slayer.finish(); return(R)
LargeReturn ==
  /\ pc = "pairs"
  /\ j >= n
  /\ finished' = TRUE
  /\ pc' = "output"
  /\ UNCHANGED <<largefixed, j, i, total, count, started>>

NextLarge ==
  \/ LargeStart
  \/ LargePair
  \/ LargeReturn

SpecLarge == InitLarge /\ [][NextLarge]_vars

NextLoop ==
  \/ LargePair
  \/ LargeReturn

SpecLoop == InitLoop /\ [][NextLoop]_vars

\* in the loop the counter holds the pairs before <<j, i>>
LoopPosition == pc = "pairs" => count = PairCount(j) + i

\* --- N(N-1)/2 without overflow: eight bytes, low first
\* the column k of the schoolbook product of two 4-byte numbers
ColSum(a, b, k) ==
  LET Term(x) == IF (k + 1 - x) \in 1..4 THEN a[x] * b[k + 1 - x] ELSE 0
  IN  Term(1) + Term(2) + Term(3) + Term(4)

RECURSIVE WideMul(_, _, _, _)
WideMul(a, b, k, carry) ==
  IF k > 8 THEN <<>>
  ELSE LET c == ColSum(a, b, k) + carry
       IN  <<c % 256>> \o WideMul(a, b, k + 1, c \div 256)

\* N(N-1)/2: the even one of N and N-1 is halved before the product
WidePairCount(m) ==
  IF m = 0 THEN WideMul(Bytes(0), Bytes(0), 1, 0)
  ELSE IF m % 2 = 0 THEN WideMul(Bytes(m \div 2), Bytes(m - 1), 1, 0)
  ELSE WideMul(Bytes(m), Bytes((m - 1) \div 2), 1, 0)

\* a 32-bit unsigned as eight bytes
Wide(x) == Bytes(x) \o <<0, 0, 0, 0>>

\* C13: for every frame count N, the total handed to the progress counter,
\* floor(n * (n-1) / 2.0) with n a 32-bit unsigned, is N(N-1)/2.
C13_TotalIsPairCount == started => Wide(total) = WidePairCount(n)

\* C3: for every frame count, the progress counter never exceeds the total
\* handed to it, and equals that total when finish() is called.
C3_WithinTotal ==
  /\ started => count <= total
  /\ finished => count = total

====
